---- MODULE Spec2Model ----
(***************************************************************************)
(* Model of KnobApp/DualKnobRings.py: two rotary knob zones (left, right)  *)
(* of the DualKnobRings window, each driving a GradientRingWidget gauge.   *)
(*                                                                         *)
(* Angles and the accumulators are fixed-point numbers in tenths of a      *)
(* degree (the finest quantity in the source is the 0.2 degree dead zone). *)
(* A pointer sample is represented by what the handler reads of it: its    *)
(* distance to each pivot (dist) and its angle about each pivot            *)
(* (angle_from).  An optional value (Python None) is a sequence of length  *)
(* 0 or 1.                                                                 *)
(***************************************************************************)
EXTENDS Integers, Sequences, FiniteSets

VARIABLES
    last_angle_left,   \* self.last_angle_left : None or the last in-zone angle
    last_angle_right,  \* self.last_angle_right
    accum_left,        \* self.accum_left  (tenths of a degree)
    accum_right,       \* self.accum_right
    value_left,        \* self.value_left
    value_right,       \* self.value_right
    ring_left,         \* self.ring_left._value
    ring_right,        \* self.ring_right._value
    pos,               \* observer: the last point handed to _process_point
    overshoot,         \* observer: how far the tick loops of the last sample
                       \*   took a value beyond MAX_COUNT / below MIN_COUNT
    sat_left,          \* observer: "max"/"min" when the last delta applied to
    sat_right,         \*   the knob was exactly one tick into its clamped bound,
                       \*   "max_rev"/"min_rev" when the delta after that one
                       \*   was a reversal of less than a tick
    run_left,          \* observer: length of the current run of one-tick
    run_right,         \*   clockwise steps begun from a fresh knob
    creep_left,        \* observer: while the knob is tracked, the rotation
    creep_right,       \*   passed in samples less than the dead zone from
                       \*   their predecessor since the last sample that was
                       \*   not, and the value and accumulator left by that one
    rev_left,          \* observer: once a delta has taken the value to a
    rev_right          \*   clamped bound or had ticks discarded there, the
                       \*   ticks discarded (over) and the rotation applied
                       \*   away from the bound since (back), while the value
                       \*   sits at the bound and the samples stay in a zone

vars == <<last_angle_left, last_angle_right, accum_left, accum_right,
          value_left, value_right, ring_left, ring_right,
          pos, overshoot, sat_left, sat_right, run_left, run_right,
          creep_left, creep_right, rev_left, rev_right>>

----------------------------------------------------------------------------
(* Knob settings *)

DEGREES_PER_TICK == 8
CLOCKWISE_IS_UP == TRUE
MIN_COUNT == 0
MAX_COUNT == 100
KNOB_RADIUS == 250

\* d degrees in model units (tenths of a degree)
Deg(d) == 10 * d

\* DEGREES_PER_TICK in model units
Tick == Deg(DEGREES_PER_TICK)

\* the 0.2 degree threshold of _process_point, in model units
DeadZone == 2

None == <<>>
Some(x) == <<x>>

Abs(x) == IF x < 0 THEN -x ELSE x
Min(a, b) == IF a < b THEN a ELSE b
Max(a, b) == IF a > b THEN a ELSE b

----------------------------------------------------------------------------
(* Pure helpers of the source *)

normalize_deg_nowrap(d) == d

normalize_deg(d) ==
    IF d > Deg(180) THEN d - Deg(360)
    ELSE IF d < -Deg(180) THEN d + Deg(360)
    ELSE d

\* dist(p, c): the distance of sample p to pivot c; <<>> when math.hypot
\* returns a non-finite number (nan, inf)
dist(p, c) == IF c = "left" THEN p.dl ELSE p.dr

\* `dist(...) <= KNOB_RADIUS`: a comparison with nan or inf is False
WithinRadius(d) == d # None /\ d[1] <= KNOB_RADIUS

\* angle_from(p, c): degrees(atan2(dy, dx)) about pivot c, in (-180, 180]
angle_from(p, c) == IF c = "left" THEN p.al ELSE p.ar

----------------------------------------------------------------------------
(* DualKnobRings._apply_delta: the two tick-extraction loops.  A loop       *)
(* state is [value, accum, hi, lo]; hi and lo follow the largest and the    *)
(* smallest number the loops assign to the value.                           *)

RECURSIVE WhileUp_unguarded(_)
WhileUp_unguarded(s) ==
    IF s.accum >= Tick
    THEN WhileUp_unguarded([value |-> s.value + 1,
                            accum |-> s.accum - Tick,
                            hi |-> Max(s.hi, s.value + 1), lo |-> s.lo])
    ELSE s

RECURSIVE WhileUp_strict(_)
WhileUp_strict(s) ==
    IF s.accum > Tick
    THEN LET v == IF s.value < MAX_COUNT THEN s.value + 1 ELSE s.value
         IN  WhileUp_strict([value |-> v, accum |-> s.accum - Tick,
                             hi |-> Max(s.hi, v), lo |-> s.lo])
    ELSE s

WhileUp_once(s) ==
    IF s.accum >= Tick
    THEN LET v == IF s.value < MAX_COUNT THEN s.value + 1 ELSE s.value
         IN  [value |-> v, accum |-> s.accum - Tick,
              hi |-> Max(s.hi, v), lo |-> s.lo]
    ELSE s

\* the loop stops at MAX_COUNT and leaves the rest in the accumulator
RECURSIVE WhileUp_banked(_)
WhileUp_banked(s) ==
    IF s.accum >= Tick /\ s.value < MAX_COUNT
    THEN WhileUp_banked([value |-> s.value + 1, accum |-> s.accum - Tick,
                         hi |-> Max(s.hi, s.value + 1), lo |-> s.lo])
    ELSE s

\* while accum >= DEGREES_PER_TICK: if value < MAX_COUNT: value += 1
\*                                  accum -= DEGREES_PER_TICK
RECURSIVE WhileUp(_)
WhileUp(s) ==
    IF s.accum >= Tick
    THEN LET v == IF s.value < MAX_COUNT THEN s.value + 1 ELSE s.value
         IN  WhileUp([value |-> v, accum |-> s.accum - Tick,
                      hi |-> Max(s.hi, v), lo |-> s.lo])
    ELSE s

RECURSIVE WhileDown_floor(_)
WhileDown_floor(s) ==
    IF s.accum < 0
    THEN LET v == IF s.value > MIN_COUNT THEN s.value - 1 ELSE s.value
         IN  WhileDown_floor([value |-> v, accum |-> s.accum + Tick,
                              hi |-> s.hi, lo |-> Min(s.lo, v)])
    ELSE s

\* while accum <= -DEGREES_PER_TICK: if value > MIN_COUNT: value -= 1
\*                                   accum += DEGREES_PER_TICK
RECURSIVE WhileDown(_)
WhileDown(s) ==
    IF s.accum <= -Tick
    THEN LET v == IF s.value > MIN_COUNT THEN s.value - 1 ELSE s.value
         IN  WhileDown([value |-> v, accum |-> s.accum + Tick,
                        hi |-> s.hi, lo |-> Min(s.lo, v)])
    ELSE s

sign == IF CLOCKWISE_IS_UP THEN 1 ELSE -1

\* the knob's (value, accum) after _apply_delta(diff_deg)
Extract(value, accum, diff_deg) ==
    WhileDown(WhileUp([value |-> value, accum |-> accum + diff_deg * sign,
                       hi |-> value, lo |-> value]))

\* the widget takes a new value only when it is larger
setValue_rising(old, v) ==
    LET c == Max(0, Min(100, v)) IN IF c > old THEN c ELSE old

\* GradientRingWidget.setValue: the widget's _value after setValue(v)
setValue(old, v) ==
    LET c == Max(0, Min(100, v)) IN IF c # old THEN c ELSE old

\* the right branch works on the left knob's value and accumulator
_apply_delta_pasted(is_left, diff_deg) ==
    LET s == Extract(value_left, accum_left, diff_deg) IN
    /\ accum_left' = s.accum
    /\ value_left' = s.value
    /\ IF is_left
       THEN ring_left' = setValue(ring_left, s.value) /\ UNCHANGED ring_right
       ELSE ring_right' = setValue(ring_right, s.value) /\ UNCHANGED ring_left
    /\ UNCHANGED <<accum_right, value_right>>

_apply_delta(is_left, diff_deg) ==
    IF is_left
    THEN LET s == Extract(value_left, accum_left, diff_deg) IN
         /\ accum_left' = s.accum
         /\ value_left' = s.value
         /\ ring_left' = setValue(ring_left, s.value)
         /\ UNCHANGED <<accum_right, value_right, ring_right>>
    ELSE LET s == Extract(value_right, accum_right, diff_deg) IN
         /\ accum_right' = s.accum
         /\ value_right' = s.value
         /\ ring_right' = setValue(ring_right, s.value)
         /\ UNCHANGED <<accum_left, value_left, ring_left>>

----------------------------------------------------------------------------
(* GradientRingWidget.paintEvent, as functions of the widget's _value.      *)
(* A direction on the screen is a bearing: degrees clockwise from east with *)
(* y pointing down, in 0 .. 360 (east 0, south 90, west 180, north 270).    *)

\* visible_angle = 360.0 * (self._value / 100.0)
visible_angle(v) == (Deg(360) * v) \div 100

\* start_deg = -90.0
start_deg == -Deg(90)

\* the sweep handed to sector.arcTo(rect_outer, start_deg, -visible_angle)
sector_sweep(v) == -visible_angle(v)

\* `if visible_angle > 0.5:` guards the drop shadow
shadow_drawn(v) == 2 * visible_angle(v) > Deg(1)

\* `if self._value > 0:` guards the arrow
arrow_drawn(v) == v > 0

\* theta_deg = start_deg + 180.0 + visible_angle
theta_deg(v) == start_deg + Deg(180) + visible_angle(v)

\* the arrow's direction (cos theta, sin theta) in painter coordinates,
\* where y grows downwards: theta is a bearing
arrow_bearing(v) == theta_deg(v) % Deg(360)

\* the direction of the arc angle a of arcTo / arcMoveTo / drawArc, which
\* are counter-clockwise from 3 o'clock ("negative = clockwise")
arc_bearing(a) == (-a) % Deg(360)

NorthBearing == Deg(270)

\* text colour by value bucket
\* every threshold is compared with < in place of <=
text_color_strict(v) ==
    IF v = 0 THEN <<0, 0, 0>>
    ELSE IF v < 12 THEN <<0, 200, 0>>
    ELSE IF v < 25 THEN <<80, 210, 0>>
    ELSE IF v < 37 THEN <<150, 220, 0>>
    ELSE IF v < 50 THEN <<220, 220, 0>>
    ELSE IF v < 62 THEN <<255, 200, 0>>
    ELSE IF v < 75 THEN <<255, 165, 0>>
    ELSE IF v < 87 THEN <<255, 100, 0>>
    ELSE <<220, 30, 10>>

\* the QColor of each branch of the if / elif chain, in order
BucketColors ==
    << <<0, 0, 0>>, <<0, 200, 0>>, <<80, 210, 0>>, <<150, 220, 0>>,
       <<220, 220, 0>>, <<255, 200, 0>>, <<255, 165, 0>>, <<255, 100, 0>>,
       <<220, 30, 10>> >>

text_color(v) ==
    IF v = 0 THEN <<0, 0, 0>>
    ELSE IF v <= 12 THEN <<0, 200, 0>>
    ELSE IF v <= 25 THEN <<80, 210, 0>>
    ELSE IF v <= 37 THEN <<150, 220, 0>>
    ELSE IF v <= 50 THEN <<220, 220, 0>>
    ELSE IF v <= 62 THEN <<255, 200, 0>>
    ELSE IF v <= 75 THEN <<255, 165, 0>>
    ELSE IF v <= 87 THEN <<255, 100, 0>>
    ELSE <<220, 30, 10>>

----------------------------------------------------------------------------
(* DualKnobRings._process_point *)

\* the branch of _process_point that handles p
Branch(p) ==
    IF WithinRadius(dist(p, "left")) THEN "left"
    ELSE IF WithinRadius(dist(p, "right")) THEN "right"
    ELSE "none"

Delta_unprimed(last, angle) ==
    LET diff == normalize_deg(angle - (IF last = None THEN 0 ELSE last[1]))
    IN  IF Abs(diff) >= DeadZone THEN Some(diff) ELSE None

\* the diff handed to _apply_delta for a knob whose last angle is `last`
\* when a sample at `angle` is handled by its branch; None when
\* _apply_delta is not called
\* every diff is applied, the 0.2 degree test is missing
Delta_unfiltered(last, angle) ==
    IF last = None THEN None
    ELSE Some(normalize_deg(angle - last[1]))

Delta(last, angle) ==
    IF last = None THEN None
    ELSE LET diff == normalize_deg(angle - last[1])
         IN  IF Abs(diff) >= DeadZone THEN Some(diff) ELSE None

_process_point(p) ==
    IF WithinRadius(dist(p, "left"))
    THEN LET angle == angle_from(p, "left")
             d == Delta(last_angle_left, angle)
         IN  /\ IF d # None
                THEN _apply_delta(TRUE, d[1])
                ELSE UNCHANGED <<accum_left, value_left, ring_left,
                                 accum_right, value_right, ring_right>>
             /\ last_angle_left' = Some(angle)
             /\ UNCHANGED last_angle_right
    ELSE IF WithinRadius(dist(p, "right"))
    THEN LET angle == angle_from(p, "right")
             d == Delta(last_angle_right, angle)
         IN  /\ IF d # None
                THEN _apply_delta(FALSE, d[1])
                ELSE UNCHANGED <<accum_left, value_left, ring_left,
                                 accum_right, value_right, ring_right>>
             /\ last_angle_right' = Some(angle)
             /\ UNCHANGED last_angle_left
    ELSE /\ last_angle_left' = None
         /\ last_angle_right' = None
         /\ UNCHANGED <<accum_left, value_left, ring_left,
                        accum_right, value_right, ring_right>>

----------------------------------------------------------------------------
(* Observers: they read the step, the program never reads them *)

RunCap == 103

\* the diff handed to _apply_delta while p is processed, per knob
DeltaLeft(p) ==
    IF Branch(p) = "left" THEN Delta(last_angle_left, angle_from(p, "left"))
    ELSE None
DeltaRight(p) ==
    IF Branch(p) = "right" THEN Delta(last_angle_right, angle_from(p, "right"))
    ELSE None

SatAfter(sat, d, value) ==
    IF d = None THEN sat
    ELSE LET sd == d[1] * sign IN
         IF sd = Tick /\ value = MAX_COUNT THEN "max"
         ELSE IF sd = -Tick /\ value = MIN_COUNT THEN "min"
         ELSE IF sat = "max" /\ sd < 0 /\ sd > -Tick THEN "max_rev"
         ELSE IF sat = "min" /\ sd > 0 /\ sd < Tick THEN "min_rev"
         ELSE "none"

\* one tick clockwise of `last`, the short way or across the +/-180 seam
OneTickClockwise(last, angle) == (angle - last[1]) % Deg(360) = Tick

RunAfter(run, handled, last, accum, value, angle) ==
    IF ~handled THEN None
    ELSE IF last = None
         THEN IF value = 0 /\ accum = 0 THEN Some(0) ELSE None
    ELSE IF run # None /\ run[1] < RunCap /\ OneTickClockwise(last, angle)
         THEN Some(run[1] + 1)
    ELSE None

\* the rotation from `last` to angle, the short way round
ShortDiff(last, angle) ==
    LET m == (angle - last[1]) % Deg(360)
    IN  IF m <= Deg(180) THEN m ELSE m - Deg(360)

CreepAfter(creep, branch, knob, last, angle, value2, accum2) ==
    IF branch = knob
    THEN IF last # None /\ creep # None /\ Abs(ShortDiff(last, angle)) < DeadZone
         THEN Some([creep[1] EXCEPT !.rot = @ + ShortDiff(last, angle)])
         ELSE Some([rot |-> 0, value |-> value2, accum |-> accum2])
    ELSE IF branch = "none" THEN None
    ELSE creep

OverCap == 2

\* d is the delta applied to a knob at (value, accum), leaving it at
\* (value2, accum2); `into` is the rotation towards the bound the value
\* sits at, `lost` the ticks of it that were discarded; the observation
\* begins when a delta reaches the bound or loses ticks there, and ends
\* with a sample outside both zones or a delta into the bound that loses
\* none
RevAfter(rev, branch, d, value, accum, value2, accum2) ==
    IF branch = "none" THEN None
    ELSE IF d = None THEN rev
    ELSE IF value2 # MAX_COUNT /\ value2 # MIN_COUNT THEN None
    ELSE LET sd == d[1] * sign
             into == IF value2 = MAX_COUNT THEN sd ELSE -sd
             lost == Abs(value * Tick + accum + sd - (value2 * Tick + accum2))
                         \div Tick
             held == rev # None /\ value = value2
         IN  IF into > 0 /\ (lost > 0 \/ value # value2)
             THEN Some([over |-> Min((IF held THEN rev[1].over ELSE 0) + lost,
                                     OverCap),
                        back |-> 0])
             ELSE IF into < 0 /\ held
             THEN Some([over |-> rev[1].over, back |-> rev[1].back - into])
             ELSE None

Observe(p) ==
    LET dL == DeltaLeft(p)
        dR == DeltaRight(p)
        s  == IF dL # None THEN Extract(value_left, accum_left, dL[1])
              ELSE IF dR # None THEN Extract(value_right, accum_right, dR[1])
              ELSE [hi |-> MIN_COUNT, lo |-> MAX_COUNT]
    IN  /\ pos' = Some(p)
        /\ overshoot' = <<Max(s.hi - MAX_COUNT, 0), Max(MIN_COUNT - s.lo, 0)>>
        /\ sat_left' = SatAfter(sat_left, dL, value_left)
        /\ sat_right' = SatAfter(sat_right, dR, value_right)
        /\ run_left' = RunAfter(run_left, Branch(p) = "left", last_angle_left,
                                accum_left, value_left, angle_from(p, "left"))
        /\ run_right' = RunAfter(run_right, Branch(p) = "right", last_angle_right,
                                 accum_right, value_right, angle_from(p, "right"))
        /\ creep_left' = CreepAfter(creep_left, Branch(p), "left", last_angle_left,
                                    angle_from(p, "left"), value_left', accum_left')
        /\ creep_right' = CreepAfter(creep_right, Branch(p), "right", last_angle_right,
                                     angle_from(p, "right"), value_right', accum_right')
        /\ rev_left' = RevAfter(rev_left, Branch(p), dL, value_left, accum_left,
                                value_left', accum_left')
        /\ rev_right' = RevAfter(rev_right, Branch(p), dR, value_right, accum_right,
                                 value_right', accum_right')

----------------------------------------------------------------------------
(* Event handlers *)

\* DualKnobRings.mouseMoveEvent
mouseMoveEvent(p) == _process_point(p) /\ Observe(p)

\* DualKnobRings.event for TouchBegin / TouchUpdate / TouchEnd: the first
\* touch point is processed, an empty list of points changes nothing
event(pts) ==
    IF pts # <<>>
    THEN _process_point(pts[1]) /\ Observe(pts[1])
    ELSE UNCHANGED vars

\* DualKnobRings.__init__
Init ==
    /\ last_angle_left = None
    /\ last_angle_right = None
    /\ accum_left = 0
    /\ accum_right = 0
    /\ value_left = 0
    /\ value_right = 0
    /\ ring_left = 0
    /\ ring_right = 0
    /\ pos = None
    /\ overshoot = <<0, 0>>
    /\ sat_left = "none"
    /\ sat_right = "none"
    /\ run_left = None
    /\ run_right = None
    /\ creep_left = None
    /\ creep_right = None
    /\ rev_left = None
    /\ rev_right = None

----------------------------------------------------------------------------
(* Pointer samples *)

NonFinite == None
FarAway == Some(3 * KNOB_RADIUS)

\* a point at distance r and angle a about the left pivot; the pivots are
\* more than 2 * KNOB_RADIUS apart, so it is far from the right pivot
LeftPt(r, a) == [dl |-> Some(r), al |-> a, dr |-> FarAway, ar |-> Deg(180)]
RightPt(r, a) == [dl |-> FarAway, al |-> 0, dr |-> Some(r), ar |-> a]

\* the point on the left / right pivot itself: atan2(0, 0) = 0
LeftPivotPt == LeftPt(0, 0)
RightPivotPt == RightPt(0, 0)

\* points outside both zones: just beyond a radius, and between the zones
OutsidePts ==
    { [dl |-> Some(KNOB_RADIUS + 1), al |-> Deg(90), dr |-> FarAway, ar |-> Deg(180)],
      [dl |-> FarAway, al |-> 0, dr |-> Some(KNOB_RADIUS + 1), ar |-> Deg(-90)],
      [dl |-> FarAway, al |-> 0, dr |-> FarAway, ar |-> Deg(180)] }

\* a point with a nan or inf coordinate: both distances are non-finite
NonFinitePt == [dl |-> NonFinite, al |-> 0, dr |-> NonFinite, ar |-> 0]

ZonePts(angles, r) ==
    {LeftPt(r, a) : a \in angles} \cup {RightPt(r, a) : a \in angles}

----------------------------------------------------------------------------
(* Spec: both knobs in use, coarse angles, every kind of sample *)

CoarseAngles == {0, Deg(180)}

Samples ==
    ZonePts(CoarseAngles, KNOB_RADIUS - 100)
    \cup {LeftPt(KNOB_RADIUS, Deg(180)), RightPt(KNOB_RADIUS, Deg(180))}
    \cup {LeftPivotPt, RightPivotPt, NonFinitePt}
    \cup OutsidePts

TouchPts == {LeftPt(KNOB_RADIUS, Deg(180)), RightPivotPt, NonFinitePt}

TouchLists ==
    {<<>>} \cup {<<p>> : p \in TouchPts} \cup {<<p, q>> : p, q \in TouchPts}

Next ==
    \/ \E p \in Samples : mouseMoveEvent(p)
    \/ \E pts \in TouchLists : event(pts)

Spec == Init /\ [][Next]_vars

----------------------------------------------------------------------------
(* One knob turned at a time: a sample inside a zone is delivered only     *)
(* while the other knob is as constructed.                                 *)

FreshLeft == last_angle_left = None /\ accum_left = 0 /\ value_left = 0
FreshRight == last_angle_right = None /\ accum_right = 0 /\ value_right = 0

OneKnob(p) ==
    /\ Branch(p) = "left" => FreshRight
    /\ Branch(p) = "right" => FreshLeft

Away == [dl |-> FarAway, al |-> 0, dr |-> FarAway, ar |-> Deg(180)]

(* SpecFine: angles one degree apart at the seam, one and five ticks apart, *)
(* and half a turn apart                                                    *)

FineAngles == {0, Deg(40), Deg(172), Deg(179), Deg(180), Deg(-179)}

FineSamples == ZonePts(FineAngles, KNOB_RADIUS - 100) \cup {Away}

FineTouch == {<<>>, <<Away>>, <<LeftPt(KNOB_RADIUS - 100, 0), Away>>,
              <<RightPt(KNOB_RADIUS - 100, 0)>>}

NextFine ==
    \/ \E p \in FineSamples : OneKnob(p) /\ mouseMoveEvent(p)
    \/ \E pts \in FineTouch : (pts # <<>> => OneKnob(pts[1])) /\ event(pts)

SpecFine == Init /\ [][NextFine]_vars

(* SpecGrid: every angle of the circle that is a whole number of ticks      *)
(* from 0                                                                   *)

TicksPerTurn == Deg(360) \div Tick

GridAngles ==
    {IF k * Tick > Deg(180) THEN k * Tick - Deg(360) ELSE k * Tick :
        k \in 0 .. (TicksPerTurn - 1)}

GridSamples == ZonePts(GridAngles, KNOB_RADIUS - 100) \cup {Away}

\* while a knob is tracked the pointer turns at most MaxJump ticks a sample
MaxJump == 2

Nearby(last, angle) ==
    last # None =>
        LET m == (angle - last[1]) % Deg(360)
        IN  m <= MaxJump * Tick \/ m >= Deg(360) - MaxJump * Tick

Slow(p) ==
    /\ Branch(p) = "left" => Nearby(last_angle_left, angle_from(p, "left"))
    /\ Branch(p) = "right" => Nearby(last_angle_right, angle_from(p, "right"))

NextGrid ==
    \/ \E p \in GridSamples : OneKnob(p) /\ Slow(p) /\ mouseMoveEvent(p)
    \/ \E pts \in FineTouch : (pts # <<>> => OneKnob(pts[1]) /\ Slow(pts[1])) /\ event(pts)

SpecGrid == Init /\ [][NextGrid]_vars

(* SpecJitter: angles a tenth of a degree apart on both sides of the seam, *)
(* delivered to a knob while its value is below JitterCap                  *)

JitterAngles ==
    {Deg(180) - 2, Deg(180) - 1, Deg(180), 1 - Deg(180), 2 - Deg(180)}

JitterSamples == ZonePts(JitterAngles, KNOB_RADIUS - 100) \cup {Away}

JitterTouch == {<<>>, <<Away>>, <<LeftPt(KNOB_RADIUS - 100, Deg(180)), Away>>}

JitterCap == 2

Calm(p) ==
    /\ Branch(p) = "left" => value_left < JitterCap
    /\ Branch(p) = "right" => value_right < JitterCap

NextJitter ==
    \/ \E p \in JitterSamples : OneKnob(p) /\ Calm(p) /\ mouseMoveEvent(p)
    \/ \E pts \in JitterTouch :
          (pts # <<>> => OneKnob(pts[1]) /\ Calm(pts[1])) /\ event(pts)

SpecJitter == Init /\ [][NextJitter]_vars

----------------------------------------------------------------------------
(* Reading a step: in every step that changes the state, the sample that    *)
(* was processed is pos'[1].                                                *)

InLeft(q) == q # None /\ WithinRadius(dist(q[1], "left"))
InRight(q) == q # None /\ WithinRadius(dist(q[1], "right"))

\* the diff handed to _apply_delta in this step, per knob
StepDeltaLeft == IF pos' = None THEN None ELSE DeltaLeft(pos'[1])
StepDeltaRight == IF pos' = None THEN None ELSE DeltaRight(pos'[1])

\* the rotation a knob has counted, in model units
TotalLeft == value_left * Tick + accum_left
TotalRight == value_right * Tick + accum_right

----------------------------------------------------------------------------
(* C1: value_left and value_right are within [MIN_COUNT, MAX_COUNT] in     *)
(* every reachable state, and no iteration of the tick loops of a sample   *)
(* takes a value outside that range.                                       *)
C1_ValueInRange ==
    /\ value_left \in MIN_COUNT .. MAX_COUNT
    /\ value_right \in MIN_COUNT .. MAX_COUNT
    /\ overshoot = <<0, 0>>

\* both knobs driven into a bound by multi-tick samples, remainders kept
C1_Witness ==
    /\ value_left = MAX_COUNT /\ accum_left # 0
    /\ value_right = MIN_COUNT /\ accum_right # 0

(* C2: a sample outside a zone's radius followed by a sample inside that   *)
(* zone's radius leaves that knob's value and accumulator unchanged.       *)
C2_ReentryOnlyPrimes ==
    [][ /\ (pos # None /\ ~InLeft(pos) /\ InLeft(pos'))
            => (value_left' = value_left /\ accum_left' = accum_left)
        /\ (pos # None /\ ~InRight(pos) /\ InRight(pos'))
            => (value_right' = value_right /\ accum_right' = accum_right)
      ]_vars

(* C3: after every processed sample each accumulator is strictly between   *)
(* -DEGREES_PER_TICK and DEGREES_PER_TICK, at the clamped bounds too.      *)
C3_AccumulatorSettled ==
    /\ -Tick < accum_left /\ accum_left < Tick
    /\ -Tick < accum_right /\ accum_right < Tick

\* a tick was discarded at the upper bound and a remainder is held there
C3_Witness ==
    value_right = MAX_COUNT /\ accum_right > 0 /\ sat_right = "max"

(* C4: in a state whose value is mid-range (value + k <= MAX_COUNT), one   *)
(* clockwise delta of k * DEGREES_PER_TICK + r, 0 <= r < DEGREES_PER_TICK, *)
(* changes the value by exactly k and leaves the accumulator equal to r.   *)
\* the statement, for a knob at (value, accum) given the delta d, reaching
\* (value2, accum2)
MultiTick(value, accum, d, value2, accum2) ==
    (d # None /\ d[1] * sign >= 0 /\ value + (d[1] * sign) \div Tick <= MAX_COUNT)
        => /\ value2 = value + (d[1] * sign) \div Tick
           /\ accum2 = (d[1] * sign) % Tick

\* as claimed: from any reachable state
C4_MultiTickAnyState ==
    [][ /\ MultiTick(value_left, accum_left, StepDeltaLeft,
                      value_left', accum_left')
        /\ MultiTick(value_right, accum_right, StepDeltaRight,
                      value_right', accum_right')
      ]_vars

\* amended: from a reachable state whose accumulator is 0
C4_MultiTickFromZero ==
    [][ /\ accum_left = 0 => MultiTick(value_left, accum_left, StepDeltaLeft,
                                        value_left', accum_left')
        /\ accum_right = 0 => MultiTick(value_right, accum_right, StepDeltaRight,
                                         value_right', accum_right')
      ]_vars

\* primed at 0 and turned to 179 degrees: 22 ticks and 3 degrees kept
C4_Witness ==
    /\ last_angle_left = Some(Deg(179))
    /\ value_left = 22 /\ accum_left = Deg(3)

(* C5: with the value at MAX_COUNT a clockwise delta of exactly            *)
(* DEGREES_PER_TICK leaves it at MAX_COUNT, and the next delta, when it is *)
(* counter-clockwise and smaller than DEGREES_PER_TICK, does not change    *)
(* the value; the same at MIN_COUNT with the directions swapped.           *)
Saturation(value, sat, d, value2) ==
    d # None =>
        /\ (value = MAX_COUNT /\ d[1] * sign = Tick) => value2 = MAX_COUNT
        /\ (sat = "max" /\ d[1] * sign < 0 /\ d[1] * sign > -Tick)
               => value2 = value
        /\ (value = MIN_COUNT /\ d[1] * sign = -Tick) => value2 = MIN_COUNT
        /\ (sat = "min" /\ d[1] * sign > 0 /\ d[1] * sign < Tick)
               => value2 = value

C5_BoundarySaturation ==
    [][ /\ Saturation(value_left, sat_left, StepDeltaLeft, value_left')
        /\ Saturation(value_right, sat_right, StepDeltaRight, value_right')
      ]_vars

\* a reversal of less than a tick has followed the tick into the bound
C5_Witness ==
    /\ sat_left = "max_rev" /\ value_left = MAX_COUNT /\ accum_left < 0
    /\ sat_right = "none"

(* C6: for two consecutive in-zone samples of one knob whose angles lie on *)
(* opposite sides of the +/-180 degree seam the delta applied is the short *)
(* way round: congruent to angle - lastAngle modulo 360, of magnitude at   *)
(* most 180; 179 -> -179 gives +2 and -179 -> 179 gives -2.                *)
\* `moved` is the rotation the knob counted in the step; it is the delta
\* applied when no tick was discarded, that is when the value ends
\* strictly between the bounds
ShortWay(last, handled, angle, moved, value2) ==
    (/\ last # None /\ handled
     /\ Abs(angle - last[1]) > Deg(180)
     /\ value2 > MIN_COUNT /\ value2 < MAX_COUNT)
        => /\ (moved - (angle - last[1])) % Deg(360) = 0
           /\ Abs(moved) <= Deg(180)
           /\ (last[1] = Deg(179) /\ angle = Deg(-179)) => moved = Deg(2)
           /\ (last[1] = Deg(-179) /\ angle = Deg(179)) => moved = -Deg(2)

C6_Wraparound ==
    [][ /\ ShortWay(last_angle_left, InLeft(pos'), angle_from(pos'[1], "left"),
                     TotalLeft' - TotalLeft, value_left')
        /\ ShortWay(last_angle_right, ~InLeft(pos') /\ InRight(pos'),
                     angle_from(pos'[1], "right"),
                     TotalRight' - TotalRight, value_right')
      ]_vars

\* primed at 0, turned to 179 and on across the seam to -179
C6_Witness ==
    /\ last_angle_right = Some(Deg(-179))
    /\ value_right = 22 /\ accum_right = Deg(5)

(* C7: from value 0, accumulator 0 and a disengaged knob, a priming sample *)
(* followed by n in-zone samples, each exactly DEGREES_PER_TICK clockwise  *)
(* of the one before, gives the value min(n, MAX_COUNT), whatever the      *)
(* starting angle and across the seam.                                     *)
C7_TickCounting ==
    /\ run_left # None => value_left = Min(run_left[1], MAX_COUNT)
    /\ run_right # None => value_right = Min(run_right[1], MAX_COUNT)

\* a run that went on past MAX_COUNT steps
C7_Witness ==
    /\ run_left # None /\ run_left[1] > MAX_COUNT
    /\ value_left = MAX_COUNT

(* C8: a sample whose distance to a zone's pivot is zero or non-finite is  *)
(* handled as a sample outside that zone's radius: it neither engages the  *)
(* knob nor changes its value or accumulator.                              *)
Degenerate(d) == d = None \/ d[1] = 0

C8_DegenerateIsOutside ==
    [][ pos' # None =>
          /\ Degenerate(dist(pos'[1], "left")) =>
                /\ last_angle_left = None => last_angle_left' = None
                /\ value_left' = value_left /\ accum_left' = accum_left
          /\ Degenerate(dist(pos'[1], "right")) =>
                /\ last_angle_right = None => last_angle_right' = None
                /\ value_right' = value_right /\ accum_right' = accum_right
      ]_vars

(* C9: a gauge at value 0 has a zero sweep, no drop shadow and no arrow; a *)
(* gauge at value 100 has a sweep of the full 360 degrees, an arrow whose  *)
(* direction is the sector's start direction, which is the top (12         *)
(* o'clock), and the label colour (220, 30, 10).                           *)
RenderEndPoints(v) ==
    /\ v = 0 => /\ sector_sweep(v) = 0
                /\ ~shadow_drawn(v)
                /\ ~arrow_drawn(v)
    /\ v = 100 => /\ Abs(sector_sweep(v)) = Deg(360)
                  /\ arrow_drawn(v)
                  /\ arrow_bearing(v) = arc_bearing(start_deg)
                  /\ arrow_bearing(v) = NorthBearing
                  /\ text_color(v) = <<220, 30, 10>>

C9_RenderEndPoints == RenderEndPoints(ring_left) /\ RenderEndPoints(ring_right)

(* C10: after every processed sample a zone is Tracking (its last angle is *)
(* present) if and only if that sample lay within the radius of that       *)
(* zone's pivot.                                                           *)
C10_TrackingIffInRadius ==
    pos # None =>
        /\ last_angle_left # None <=> InLeft(pos)
        /\ last_angle_right # None <=> InRight(pos)

(* C11: the diff handed to _apply_delta for two consecutive in-zone angles *)
(* lies in the half-open interval (-180, 180] degrees; a raw difference of *)
(* exactly -180 is wrapped to +180.                                        *)
HalfOpen(last, d, angle) ==
    d # None =>
        /\ -Deg(180) < d[1] /\ d[1] <= Deg(180)
        /\ angle - last[1] = -Deg(180) => d[1] = Deg(180)

C11_DiffHalfOpen ==
    [][ /\ HalfOpen(last_angle_left, StepDeltaLeft, angle_from(pos'[1], "left"))
        /\ HalfOpen(last_angle_right, StepDeltaRight, angle_from(pos'[1], "right"))
      ]_vars

(* C12: every in-zone sample sets the zone's last angle to that sample's   *)
(* angle, and when it is less than 0.2 degrees from its predecessor the    *)
(* knob's value and accumulator are unchanged; so the same point twice     *)
(* changes nothing, and a run of such samples leaves value and accumulator *)
(* as they were, however far the run has turned.                           *)
DeadZoneStep(last, handled, angle, value, accum, last2, value2, accum2) ==
    handled =>
        /\ last2 = Some(angle)
        /\ (last # None /\ Abs(ShortDiff(last, angle)) < DeadZone)
               => (value2 = value /\ accum2 = accum)

CreepKept(creep, value, accum) ==
    creep # None => (creep[1].value = value /\ creep[1].accum = accum)

C12_DeadZoneTracking ==
    /\ [][ /\ DeadZoneStep(last_angle_left, InLeft(pos'),
                            angle_from(pos'[1], "left"), value_left, accum_left,
                            last_angle_left', value_left', accum_left')
           /\ DeadZoneStep(last_angle_right, ~InLeft(pos') /\ InRight(pos'),
                            angle_from(pos'[1], "right"), value_right, accum_right,
                            last_angle_right', value_right', accum_right')
           /\ pos' = pos => UNCHANGED <<value_left, accum_left,
                                        value_right, accum_right>>
         ]_vars
    /\ [](CreepKept(creep_left, value_left, accum_left)
          /\ CreepKept(creep_right, value_right, accum_right))

\* the pointer has crept 0.4 degrees while a remainder was held
C12_Witness ==
    /\ creep_left # None /\ Abs(creep_left[1].rot) >= 2 * DeadZone
    /\ accum_left # 0

(* C13: ticks past a clamped bound are discarded, not banked: from a state *)
(* with the value at MAX_COUNT, however many ticks were discarded there,   *)
(* counter-clockwise rotation totalling 2 * DEGREES_PER_TICK has taken the *)
(* value below MAX_COUNT; the same at MIN_COUNT with clockwise rotation.   *)
\* rev is present while the value has not left the bound
ReversalShort(rev) == rev # None => rev[1].back < 2 * Tick

C13_NoBanking == ReversalShort(rev_left) /\ ReversalShort(rev_right)

\* OverCap ticks discarded at MAX_COUNT, then more than one tick of
\* reversal with the value still at MAX_COUNT
C13_Witness ==
    /\ value_left = MAX_COUNT /\ rev_left # None
    /\ rev_left[1].over >= OverCap /\ rev_left[1].back > Tick

(* C14: a sample changes the value and accumulator of at most one knob,    *)
(* and only of the knob whose zone contains it: a sample inside the left   *)
(* zone leaves value_right and accum_right unchanged and the other way     *)
(* round, a sample outside both zones changes no value and no accumulator. *)
C14_ZoneIsolation ==
    [][ /\ ~InLeft(pos') => UNCHANGED <<value_left, accum_left>>
        /\ ~InRight(pos') => UNCHANGED <<value_right, accum_right>>
        /\ \/ UNCHANGED <<value_left, accum_left>>
           \/ UNCHANGED <<value_right, accum_right>>
      ]_vars

\* the last sample fell in the left zone, whose knob has been turned up,
\* while the right knob holds a value, a remainder and a tracked angle
C14_Witness ==
    /\ InLeft(pos) /\ value_left > 0
    /\ value_right > 0 /\ accum_right # 0 /\ last_angle_right # None

(* C15: after every processed event each gauge shows its knob's value      *)
(* (ring_left.value() = value_left, ring_right.value() = value_right), the *)
(* gauge value is within [0, 100], and setValue's clamp does not alter the *)
(* value the controller hands over.                                        *)
Mirrors(ring, value) ==
    /\ ring = value
    /\ ring \in 0 .. 100
    /\ setValue(ring, value) = value

C15_GaugeMirrors == Mirrors(ring_left, value_left) /\ Mirrors(ring_right, value_right)

\* the left gauge has followed its knob to the top and the right gauge
\* shows a value in mid-range
C15_Witness ==
    /\ ring_left = MAX_COUNT /\ value_left = MAX_COUNT
    /\ ring_right = 22 /\ value_right = 22

(* C16: for every value in 0..100 the label colour is that of exactly one  *)
(* of nine buckets with the ranges 0; 1-12; 13-25; 26-37; 38-50; 51-62;    *)
(* 63-75; 76-87; 88-100, and the arrow is drawn exactly for the values in  *)
(* buckets two to nine.                                                    *)
BucketRanges ==
    << <<0, 0>>, <<1, 12>>, <<13, 25>>, <<26, 37>>, <<38, 50>>, <<51, 62>>,
       <<63, 75>>, <<76, 87>>, <<88, 100>> >>

BucketsOf(v) ==
    {i \in 1 .. Len(BucketRanges) :
        BucketRanges[i][1] <= v /\ v <= BucketRanges[i][2]}

ColourBuckets(v) ==
    /\ Cardinality(BucketsOf(v)) = 1
    /\ \A i \in 1 .. Len(BucketColors) :
          text_color(v) = BucketColors[i] <=> i \in BucketsOf(v)
    /\ arrow_drawn(v) <=> \E i \in BucketsOf(v) : i >= 2

C16_ColourBuckets == ColourBuckets(ring_left) /\ ColourBuckets(ring_right)

\* the right gauge shows 25, the last value of the third bucket, for which
\* the arrow is drawn
C16_Witness ==
    /\ ring_right = 25 /\ text_color(ring_right) = BucketColors[3]
    /\ arrow_drawn(ring_right)

====
